---- MODULE Spec2Model ----
(***************************************************************************)
(* Model of the refresh/cache/scheduling core of the CRAC monitoring       *)
(* backend: DataPreloadService (the snapshot cache), the MLService model   *)
(* singleton, and SchedulerService (thread per job, hour-aligned waits).   *)
(*                                                                         *)
(* Data values are abstracted to the refresh run that produced them: a     *)
(* data frame, a lookup map or a model built by run g is the integer g.    *)
(***************************************************************************)
EXTENDS Integers, Sequences, FiniteSets, TLC

\* ------------------------------------------------------------------ values
None == 0            \* Python None
Empty == 0 - 1       \* an empty dict {} / an empty pd.DataFrame()
Features == 1        \* MLService.features, the fixed feature list
AdHocModel == 0 - 2  \* a forest fitted by a prediction request on its own intervals
NoTime == 0 - 1      \* no time recorded
NaN == 0 - 99        \* np.nan

MaxGen == 2          \* number of refresh pipelines that may be started

Gens == 1..MaxGen

\* Execution contexts that reach DataPreloadService: "bg" is a background
\* thread that calls refresh_all_data (the scheduler job thread of main.py 184,
\* or the thread POST /system/refresh starts, main.py 103); "req" is the
\* request context that calls get_cached_data.
Threads == {"bg", "req"}

Fields == {"df_raw", "df_processed", "intervals", "model", "features",
           "maintenance_dict", "brand_dict", "model_dict", "client_dict",
           "last_update"}

MapFields == {"maintenance_dict", "brand_dict", "model_dict", "client_dict"}

\* DataPreloadService.__init__: every entry of _cached_data is None
EmptyCache == [f \in Fields |-> None]

\* the order in which get_cached_data reads the entries of self._cached_data
ReadOrder == <<"intervals", "model", "features", "maintenance_dict",
               "brand_dict", "model_dict", "client_dict", "last_update",
               "df_raw", "df_processed">>

\* locals of refresh_all_data that differ between runs (df_raw, df_processed
\* and intervals of run g are g once their step has passed), with what
\* happened to the run: pg_fail = the maintenance query failed, valerr =
\* train_model raised ValueError, raised = an exception reached line 128
NoLocals == [maint |-> None, model |-> None, features |-> None,
             pg_fail |-> FALSE, valerr |-> FALSE, raised |-> FALSE]

NoPred == [intervals |-> None, model |-> None, snap_model |-> None]

VARIABLES
    cached,       \* DataPreloadService._cached_data (the dict object referenced)
    is_updating,  \* DataPreloadService._is_updating
    ml_model,     \* MLService.model (module singleton)
    pc,           \* position of each execution context
    gen,          \* the run id of the pipeline a context is executing
    loc,          \* local variables of the pipeline of a context
    nextGen,      \* next run id
    data,         \* the dict get_cached_data is building
    rd_idx,       \* index in ReadOrder of the next read
    cliente,      \* argument of get_cached_data: TRUE = a tenant key is given
    sawEmpty,     \* this get_cached_data call found last_update None
    pred          \* what the last predict_risk call combined

cacheVars == <<cached, is_updating, ml_model, pc, gen, loc, nextGen,
               data, rd_idx, cliente, sawEmpty, pred>>

VARIABLES
    clock,        \* wall clock (datetime.now()), in minutes
    tasks,        \* SchedulerService._tasks: name -> config
    threads,      \* SchedulerService._threads: name -> thread
    stop_flags,   \* SchedulerService._stop_flags: name -> Event
    last_run,     \* SchedulerService._last_run: name -> time
    set_events,   \* the Event objects that are set
    th,           \* the job threads: locals and position in _run_task
    caller,       \* the context that calls schedule_task/cancel_task/stop_all
    nextReg       \* next thread/Event identity

schedVars == <<clock, tasks, threads, stop_flags, last_run, set_events, th,
               caller, nextReg>>

VARIABLES
    events,                 \* build_intervals: the rows of one device in df
    build_now,              \* build_intervals: pd.Timestamp.now() of line 78
    last_maintenance_time,  \* build_intervals: the maintenance time of the device
    current_time_elapsed,   \* build_intervals: local of lines 117-123
    start_idx,              \* build_intervals: the current boundary
    fail_pos,               \* build_intervals: position of the for loop in fail_indices
    recs,                   \* build_intervals: the rows emitted so far
    bpc                     \* build_intervals: position in the function

buildVars == <<events, build_now, last_maintenance_time, current_time_elapsed,
               start_idx, fail_pos, recs, bpc>>

VARIABLES
    times,          \* train_model: intervals['duration_hours'], an array of floats
    n_events,       \* train_model: the rows of intervals with event = 1
    self_model,     \* train_model: self.model
    train_outcome   \* train_model: not called yet, the error raised, or returned

trainVars == <<times, n_events, self_model, train_outcome>>

VARIABLES
    surv_x,          \* predict_risk: surv_func.x, the times of the survival curve
    surv_y,          \* predict_risk: surv_func.y, its probabilities
    current_time,    \* predict_risk: current_time_elapsed of the latest interval
    max_time,        \* predict_risk: argument
    risk_threshold,  \* predict_risk: argument
    prediction,      \* predict_risk: the dict returned
    predict_pc,      \* the call: not made yet ("idle"), made ("called"), or ended
                     \* by a dict ("returned"), a list ("listed"), None ("none")
                     \* or an exception ("raised")
    predict_op,      \* the method called: predict_risk or get_survival_curve
    device_known,    \* does intervals hold a row whose unit is the device
    n_points,        \* get_survival_curve: argument
    curve            \* get_survival_curve: the list returned

predictVars == <<surv_x, surv_y, current_time, max_time, risk_threshold,
                 prediction, predict_pc, predict_op, device_known, n_points,
                 curve>>

VARIABLES
    description,       \* detect_failures: the Descripcion of the record
    desc_col_present,  \* detect_failures: desc_col is a column of df
    severity,          \* detect_failures: the Severidad of the record
    sev_thr,           \* detect_failures: argument
    is_failure,        \* detect_failures: the flag returned for the record
    detect_pc          \* detect_failures: not called yet, called, or returned

detectVars == <<description, desc_col_present, severity, sev_thr, is_failure,
                detect_pc>>

VARIABLES
    snap_old,      \* get_cached_data: the snapshot published before the call
    snap_new,      \* get_cached_data: the snapshot a refresh publishes meanwhile
    publish_at,    \* get_cached_data: reads of _cached_data made before that
    tenant,        \* get_cached_data: the argument cliente
    result,        \* get_cached_data: the frames of the dict returned
    filter_pc      \* get_cached_data: not called yet, called, returned or raised

filterVars == <<snap_old, snap_new, publish_at, tenant, result, filter_pc>>

textVars == <<detectVars, filterVars>>

vars == <<cacheVars, schedVars, buildVars, trainVars, predictVars, textVars>>

PipelinePcs == {"bigquery", "postgres", "intervals", "train", "publish", "finally"}

\* an empty dict
EmptyDict == [n \in {} |-> None]

IdleCaller == [pc |-> "idle", op |-> "none", name |-> "none",
               interval |-> 0, imm |-> FALSE, rest |-> {}]

\* SchedulerService.__init__ (scheduler_service.py 13-18)
SchedulerConstructed ==
    /\ clock = 0
    /\ tasks = EmptyDict
    /\ threads = EmptyDict
    /\ stop_flags = EmptyDict
    /\ last_run = EmptyDict
    /\ set_events = {}
    /\ th = EmptyDict
    /\ caller = IdleCaller
    /\ nextReg = 1

\* DataPreloadService.__init__ (preload_service.py 17-31) and
\* MLService.__init__ (ml_service.py 14-15)
CacheConstructed ==
    /\ cached = EmptyCache
    /\ is_updating = FALSE
    /\ ml_model = None
    /\ pc = [t \in Threads |-> "idle"]
    /\ gen = [t \in Threads |-> None]
    /\ loc = [t \in Threads |-> NoLocals]
    /\ nextGen = 1
    /\ data = EmptyCache
    /\ rd_idx = 1
    /\ cliente = FALSE
    /\ sawEmpty = FALSE
    /\ pred = NoPred

\* build_intervals is not running
BuildIdle ==
    /\ events = <<>>
    /\ build_now = 0
    /\ last_maintenance_time = NoTime
    /\ current_time_elapsed = 0
    /\ start_idx = 0
    /\ fail_pos = 0
    /\ recs = <<>>
    /\ bpc = "idle"

\* ------------------------------------------------------------ Init (cache)
\* no train_model call is under way
TrainIdle ==
    /\ times = <<>>
    /\ n_events = 0
    /\ self_model = None
    /\ train_outcome = "idle"

\* train_model is not running; self.model is whatever it was left as
TrainNotCalled ==
    /\ times = <<>>
    /\ n_events = 0
    /\ train_outcome = "idle"

\* no predict_risk call is under way
PredictIdle ==
    /\ surv_x = <<>>
    /\ surv_y = <<>>
    /\ current_time = 0
    /\ max_time = 0
    /\ risk_threshold = 0
    /\ prediction = None
    /\ predict_pc = "idle"
    /\ predict_op = "none"
    /\ device_known = FALSE
    /\ n_points = 0
    /\ curve = <<>>

\* no detect_failures call is under way
DetectIdle ==
    /\ description = <<>>
    /\ desc_col_present = FALSE
    /\ severity = 0
    /\ sev_thr = None
    /\ is_failure = FALSE
    /\ detect_pc = "idle"

\* no get_cached_data call with a tenant key is under way
FilterIdle ==
    /\ snap_old = <<>>
    /\ snap_new = <<>>
    /\ publish_at = 0
    /\ tenant = <<>>
    /\ result = <<>>
    /\ filter_pc = "idle"

TextIdle == DetectIdle /\ FilterIdle

MLIdle == BuildIdle /\ TrainIdle /\ PredictIdle /\ TextIdle

InitCache == CacheConstructed /\ SchedulerConstructed /\ MLIdle

\* ------------------------------------------- refresh_all_data, step by step
\* where refresh_all_data returns to: get_cached_data goes on with its reads
ReturnTo(t) == IF t = "req" THEN "read" ELSE "idle"

\* line 38: the guard reads the flag; line 40 returns when it is set
CheckUpdating(t) ==
    pc' = [pc EXCEPT ![t] = IF is_updating THEN ReturnTo(t) ELSE "set"]

CanStart == nextGen + Cardinality({u \in Threads : pc[u] = "set"}) <= MaxGen

\* the scheduler job (main.py 186), force_refresh on its own thread
\* (main.py 103) call refresh_all_data
RefreshCall(t) ==
    /\ t = "bg"
    /\ pc[t] = "idle"
    /\ CanStart
    /\ CheckUpdating(t)
    /\ UNCHANGED <<cached, is_updating, ml_model, gen, loc, nextGen, data,
                   rd_idx, cliente, sawEmpty, pred>>

\* line 43: self._is_updating = True
RefreshSet(t) ==
    /\ pc[t] = "set"
    /\ is_updating' = TRUE
    /\ gen' = [gen EXCEPT ![t] = nextGen]
    /\ nextGen' = nextGen + 1
    /\ loc' = [loc EXCEPT ![t] = NoLocals]
    /\ pc' = [pc EXCEPT ![t] = "bigquery"]
    /\ UNCHANGED <<cached, ml_model, data, rd_idx, cliente, sawEmpty,
                   pred>>

\* an exception leaves the try block for the handler of line 128
Raise(t) ==
    /\ loc' = [loc EXCEPT ![t].raised = TRUE]
    /\ pc' = [pc EXCEPT ![t] = "finally"]

\* lines 49-68: get_all_alarms re-raises every BigQuery error
\* (bigquery_service.py 98-99); otherwise the frames are completed and processed
StepBigQuery(t) ==
    /\ pc[t] = "bigquery"
    /\ \E ok \in BOOLEAN :
         IF ok
         THEN /\ pc' = [pc EXCEPT ![t] = "postgres"]
              /\ UNCHANGED loc
         ELSE Raise(t)
    /\ UNCHANGED <<cached, is_updating, ml_model, gen, nextGen, data,
                   rd_idx, cliente, sawEmpty, pred>>

\* variant: the None result of a failed query is passed on unchecked
MaintAfterUnchecked(res, g) ==
    IF res = "rows" THEN g ELSE IF res = "error" THEN None ELSE Empty

\* lines 76-85: the four maps are {} unless get_mantenimientos_dataframe gave
\* rows; it gives an empty frame when nothing matched and None when the query
\* failed (postgres_service.py 109-113)
MaintAfter(res, g) == IF res = "rows" THEN g ELSE Empty

\* lines 70-85: the maintenance query never raises into the pipeline
StepPostgres(t) ==
    /\ pc[t] = "postgres"
    /\ \E res \in {"rows", "empty", "error"} :
         IF MaintAfter(res, gen[t]) = None
         THEN Raise(t)
         ELSE /\ loc' = [loc EXCEPT ![t].maint = MaintAfter(res, gen[t]),
                                    ![t].pg_fail = (res = "error")]
              /\ pc' = [pc EXCEPT ![t] = "intervals"]
    /\ UNCHANGED <<cached, is_updating, ml_model, gen, nextGen, data,
                   rd_idx, cliente, sawEmpty, pred>>

\* lines 87-98: detect_failures and build_intervals
StepIntervals(t) ==
    /\ pc[t] = "intervals"
    /\ \E ok \in BOOLEAN :
         IF ok
         THEN /\ pc' = [pc EXCEPT ![t] = "train"]
              /\ UNCHANGED loc
         ELSE Raise(t)
    /\ UNCHANGED <<cached, is_updating, ml_model, gen, nextGen, data,
                   rd_idx, cliente, sawEmpty, pred>>

\* variant: the handler keeps the model of the current snapshot
OnValueErrorKeepModel(c) ==
    [model |-> c["model"], features |-> c["features"], goes_on |-> TRUE]

\* lines 105-107: what the ValueError handler leaves in model and features,
\* and whether the pipeline goes on to line 110
OnValueError(c) == [model |-> None, features |-> None, goes_on |-> TRUE]

\* lines 100-107 with ml_service.train_model (ml_service.py 226-273):
\* success stores the forest in MLService.model (line 272) and returns it;
\* a ValueError is caught; any other exception propagates
StepTrain(t) ==
    /\ pc[t] = "train"
    /\ \E res \in {"fit", "ValueError", "other"} :
         CASE res = "fit" ->
                /\ ml_model' = gen[t]
                /\ loc' = [loc EXCEPT ![t].model = gen[t], ![t].features = Features]
                /\ pc' = [pc EXCEPT ![t] = "publish"]
           [] res = "ValueError" ->
                /\ loc' = [loc EXCEPT ![t].model = OnValueError(cached).model,
                                      ![t].features = OnValueError(cached).features,
                                      ![t].valerr = TRUE]
                /\ pc' = [pc EXCEPT ![t] = IF OnValueError(cached).goes_on
                                            THEN "publish" ELSE "finally"]
                /\ UNCHANGED ml_model
           [] res = "other" ->
                /\ Raise(t)
                /\ UNCHANGED ml_model
    /\ UNCHANGED <<cached, is_updating, gen, nextGen, data, rd_idx,
                   cliente, sawEmpty, pred>>

\* variant: the intervals entry is only filled when a model was trained
NewSnapshotIntervalsWithModel(g, l) ==
    [df_raw |-> g, df_processed |-> g,
     intervals |-> IF l.model = None THEN None ELSE g,
     model |-> l.model, features |-> l.features,
     maintenance_dict |-> l.maint, brand_dict |-> l.maint,
     model_dict |-> l.maint, client_dict |-> l.maint,
     last_update |-> g]

\* lines 110-121: the new dict
NewSnapshot(g, l) ==
    [df_raw |-> g, df_processed |-> g, intervals |-> g,
     model |-> l.model, features |-> l.features,
     maintenance_dict |-> l.maint, brand_dict |-> l.maint,
     model_dict |-> l.maint, client_dict |-> l.maint,
     last_update |-> g]

\* line 110: self._cached_data = {...}
StepPublish(t) ==
    /\ pc[t] = "publish"
    /\ cached' = NewSnapshot(gen[t], loc[t])
    /\ pc' = [pc EXCEPT ![t] = "finally"]
    /\ loc' = [loc EXCEPT ![t] = NoLocals]
    /\ UNCHANGED <<is_updating, ml_model, gen, nextGen, data,
                   rd_idx, cliente, sawEmpty, pred>>

\* variant: the handler drops the cache
AfterExceptReset(c) == EmptyCache

\* lines 128-131: what the except handler does to the cache (it only logs)
AfterExcept(c) == c

\* line 133: the value the finally clause stores in the flag
FlagAfterFinally(f) == FALSE

\* lines 128-133: handler and finally clause, then back to the caller
StepFinally(t) ==
    /\ pc[t] = "finally"
    /\ is_updating' = FlagAfterFinally(is_updating)
    /\ cached' = IF loc[t].raised THEN AfterExcept(cached) ELSE cached
    /\ pc' = [pc EXCEPT ![t] = ReturnTo(t)]
    /\ gen' = [gen EXCEPT ![t] = None]
    /\ loc' = [loc EXCEPT ![t] = NoLocals]
    /\ UNCHANGED <<ml_model, nextGen, data, rd_idx, cliente,
                   sawEmpty, pred>>

\* ---------------------------------------------- get_cached_data, by reads
\* line 145-147: a request calls get_cached_data(cliente); when last_update is
\* None it calls refresh_all_data inline
GetCall(t) ==
    /\ t = "req"
    /\ pc[t] = "idle"
    /\ \E c \in BOOLEAN : cliente' = c
    /\ IF cached["last_update"] = None
       THEN /\ CanStart
            /\ sawEmpty' = TRUE
            /\ CheckUpdating(t)
       ELSE /\ sawEmpty' = FALSE
            /\ pc' = [pc EXCEPT ![t] = "read"]
    /\ UNCHANGED <<cached, is_updating, ml_model, gen, loc, nextGen, pred,
                   data, rd_idx>>

\* the value one subscript self._cached_data[f] gives (line 151: a None
\* intervals entry is replaced by an empty frame)
ReadField(c, f) ==
    IF f = "intervals" /\ c[f] = None THEN Empty ELSE c[f]

\* lines 150-159 and 187-188 (165-172 with a tenant): one subscript of
\* self._cached_data per step; .copy() on a None frame raises AttributeError
GetRead(t) ==
    /\ t = "req"
    /\ pc[t] = "read"
    /\ rd_idx <= Len(ReadOrder)
    /\ LET f == ReadOrder[rd_idx] IN
         IF f \in {"df_raw", "df_processed"} /\ cached[f] = None
         THEN /\ pc' = [pc EXCEPT ![t] = "error"]
              /\ UNCHANGED <<data, rd_idx>>
         ELSE /\ data' = [data EXCEPT ![f] = ReadField(cached, f)]
              /\ rd_idx' = rd_idx + 1
              /\ pc' = [pc EXCEPT ![t] =
                          IF rd_idx = Len(ReadOrder) /\ ~cliente
                          THEN "returned" ELSE "read"]
    /\ UNCHANGED <<cached, is_updating, ml_model, gen, loc, nextGen,
                   cliente, sawEmpty, pred>>

\* lines 174-182: with a tenant the intervals are taken again from
\* self._cached_data (or are an empty frame when the tenant has no records)
GetFilterIntervals(t) ==
    /\ t = "req"
    /\ pc[t] = "read"
    /\ rd_idx = Len(ReadOrder) + 1
    /\ cliente
    /\ \E hasRecords \in BOOLEAN :
         data' = [data EXCEPT !["intervals"] =
                     IF hasRecords THEN cached["intervals"] ELSE Empty]
    /\ pc' = [pc EXCEPT ![t] = "returned"]
    /\ UNCHANGED <<cached, is_updating, ml_model, gen, loc, nextGen,
                   rd_idx, cliente, sawEmpty, pred>>

\* the model predict_risk computes with: self.model of the MLService
\* singleton (ml_service.py 289, 308), not the model of the dict d
PredictModel(d) == ml_model

\* devices.py 132-163: the handler takes intervals and model from the dict it
\* got, returns early without a model, and calls
\* ml_service.predict_risk(intervals, device, ...)
Predict(t) ==
    /\ t = "req"
    /\ pc[t] = "returned"
    /\ data["intervals"] # Empty
    /\ data["model"] # None
    /\ PredictModel(data) # None
    /\ pred' = [intervals |-> data["intervals"], model |-> PredictModel(data),
                snap_model |-> data["model"]]
    /\ pc' = [pc EXCEPT ![t] = "predicted"]
    /\ UNCHANGED <<cached, is_updating, ml_model, gen, loc, nextGen,
                   data, rd_idx, cliente, sawEmpty>>

\* the handler ends (response sent, or HTTP 500 after an exception)
GetDone(t) ==
    /\ t = "req"
    /\ pc[t] \in {"returned", "error", "predicted"}
    /\ pc' = [pc EXCEPT ![t] = "idle"]
    /\ data' = EmptyCache
    /\ rd_idx' = 1
    /\ cliente' = FALSE
    /\ sawEmpty' = FALSE
    /\ pred' = NoPred
    /\ UNCHANGED <<cached, is_updating, ml_model, gen, loc, nextGen>>

\* predictions.py 57-98: the handler of GET /predictions/{dispositivo} builds
\* its own intervals and calls ml_service.train_model on them, which stores
\* the forest in MLService.model (ml_service.py 272); handlers run one at a
\* time on the event loop
GetDevicePrediction(t) ==
    /\ t = "req"
    /\ pc[t] = "idle"
    /\ ml_model # AdHocModel
    /\ ml_model' = AdHocModel
    /\ UNCHANGED <<cached, is_updating, pc, gen, loc, nextGen, data, rd_idx,
                   cliente, sawEmpty, pred>>

CacheStep ==
    \E t \in Threads :
        \/ RefreshCall(t)
        \/ RefreshSet(t)
        \/ StepBigQuery(t)
        \/ StepPostgres(t)
        \/ StepIntervals(t)
        \/ StepTrain(t)
        \/ StepPublish(t)
        \/ StepFinally(t)
        \/ GetCall(t)
        \/ GetRead(t)
        \/ GetFilterIntervals(t)
        \/ Predict(t)
        \/ GetDone(t)
        \/ GetDevicePrediction(t)

NextCache ==
    CacheStep /\ UNCHANGED <<schedVars, buildVars, trainVars, predictVars, textVars>>

SpecCache == InitCache /\ [][NextCache]_vars

TypeOK ==
    /\ is_updating \in BOOLEAN
    /\ nextGen \in 1..(MaxGen + 1)
    /\ \A t \in Threads : pc[t] \in PipelinePcs \cup {"idle", "set", "read", "returned", "error", "predicted"}
\* ====================================================================
\* SchedulerService (scheduler_service.py)
\* ====================================================================
Hour == 60           \* timedelta(hours=1), in minutes

MaxReg == 2          \* number of schedule_task registrations
MaxTime == 121       \* the clock stops here
MaxBody == 1         \* a job body takes at most this many minutes

\* minutes past the hour at which schedule_task, cancel_task and stop_all
\* are called
CallMinutes == {0, 32}
CallTime == (clock % Hour) \in CallMinutes

Names == {"refresh_data"}
Intervals == {30}

Put(d, k, v) == [x \in DOMAIN d \cup {k} |-> IF x = k THEN v ELSE d[x]]
Del(d, k) == [x \in DOMAIN d \ {k} |-> d[x]]

InitSched == CacheConstructed /\ SchedulerConstructed /\ MLIdle

\* variant: the wait target is one hour from now
NowPlusHour(now) == now + Hour

\* line 81: (now + timedelta(hours=1)).replace(minute=0, second=0, microsecond=0)
NextHour(now) == (now + Hour) - ((now + Hour) % Hour)

\* a thread that has left _run_task (normally, or by an uncaught KeyError)
Ended(t, how) ==
    [t EXCEPT !.pc = how, !.func = 0, !.interval = 0, !.run_immediately = FALSE,
              !.ev = 0, !.target = NoTime, !.began = NoTime,
              !.reg = NoTime, !.starts = <<>>,
              !.cancelled = "no", !.failed = FALSE]

\* the set Events that something still refers to: _stop_flags, or a thread
\* blocked in wait() on the Event
Referenced(S, sf, t) ==
    { e \in S : \/ \E n \in DOMAIN sf : sf[n] = e
                \/ \E id \in DOMAIN t : t[id].pc = "wait" /\ t[id].ev = e }

\* lines 105-106 of cancel_task: the stop Event of the name is set
SetStopFlag(name) ==
    IF name \in DOMAIN stop_flags THEN set_events \cup {stop_flags[name]}
    ELSE set_events

\* the threads after cancel_task(name) was called: the thread registered
\* under the name remembers that it was running its body, or not, at the call
Cancelled(name) ==
    IF name \in DOMAIN threads
    THEN [th EXCEPT ![threads[name]].cancelled =
            IF @ # "no" THEN @
            ELSE IF th[threads[name]].pc \in {"imm", "body"} THEN "running"
            ELSE "idle"]
    ELSE th

\* schedule_task, lines 36-38: an existing name is cancelled first
ScheduleTask(name, interval, imm) ==
    /\ caller.pc = "idle"
    /\ CallTime
    /\ nextReg <= MaxReg
    /\ IF name \in DOMAIN tasks
       THEN /\ set_events' = SetStopFlag(name)
            /\ th' = Cancelled(name)
            /\ caller' = [pc |-> "join", op |-> "schedule", name |-> name,
                          interval |-> interval, imm |-> imm, rest |-> {}]
       ELSE /\ caller' = [pc |-> "register", op |-> "schedule", name |-> name,
                          interval |-> interval, imm |-> imm, rest |-> {}]
            /\ UNCHANGED <<set_events, th>>
    /\ UNCHANGED <<clock, tasks, threads, stop_flags, last_run, nextReg>>

\* schedule_task, lines 40-56: config, a fresh Event, a started thread
Register ==
    /\ caller.pc = "register"
    /\ tasks' = Put(tasks, caller.name,
                    [func |-> nextReg, interval |-> caller.interval,
                     run_immediately |-> caller.imm])
    /\ stop_flags' = Put(stop_flags, caller.name, nextReg)
    /\ threads' = Put(threads, caller.name, nextReg)
    /\ th' = Put(th, nextReg,
                 [name |-> caller.name, pc |-> "start", func |-> 0,
                  interval |-> 0, run_immediately |-> FALSE, ev |-> 0,
                  target |-> NoTime, began |-> NoTime,
                  reg |-> clock, starts |-> <<>>,
                  cancelled |-> "no", failed |-> FALSE])
    /\ nextReg' = nextReg + 1
    /\ caller' = IdleCaller
    /\ UNCHANGED <<clock, last_run, set_events>>

\* cancel_task, lines 105-110: set the Event and join the thread
CancelTask(name) ==
    /\ caller.pc = "idle"
    /\ CallTime
    /\ name \in DOMAIN stop_flags
    /\ set_events' = SetStopFlag(name)
    /\ th' = Cancelled(name)
    /\ caller' = [pc |-> "join", op |-> "cancel", name |-> name,
                  interval |-> 0, imm |-> FALSE, rest |-> {}]
    /\ UNCHANGED <<clock, tasks, threads, stop_flags, last_run, nextReg>>

\* stop_all, lines 152-153: cancel_task for every name of list(_tasks.keys())
StopAll ==
    /\ caller.pc = "idle"
    /\ CallTime
    /\ DOMAIN tasks # {}
    /\ \E n \in DOMAIN tasks :
         /\ set_events' = SetStopFlag(n)
         /\ th' = Cancelled(n)
         /\ caller' = [pc |-> "join", op |-> "stop_all", name |-> n,
                       interval |-> 0, imm |-> FALSE,
                       rest |-> DOMAIN tasks \ {n}]
    /\ UNCHANGED <<clock, tasks, threads, stop_flags, last_run, nextReg>>

\* join(timeout=5) is over: the thread has ended, or it is still inside
\* the job body after 5 seconds
JoinOver(name) ==
    \/ name \notin DOMAIN threads
    \/ th[threads[name]].pc \in {"dead", "crashed", "imm", "body"}

\* cancel_task, lines 110-115: after the join the four entries are deleted;
\* then the caller goes on (schedule_task registers, stop_all takes the next name)
JoinReturn ==
    /\ caller.pc = "join"
    /\ JoinOver(caller.name)
    /\ threads' = Del(threads, caller.name)
    /\ stop_flags' = Del(stop_flags, caller.name)
    /\ tasks' = Del(tasks, caller.name)
    /\ last_run' = Del(last_run, caller.name)
    /\ CASE caller.op = "schedule" ->
              /\ caller' = [caller EXCEPT !.pc = "register"]
              /\ set_events' = Referenced(set_events, stop_flags', th)
              /\ UNCHANGED th
         [] caller.op = "stop_all" /\ caller.rest # {} ->
              \E n \in caller.rest :
                 /\ set_events' = Referenced(
                        IF n \in DOMAIN stop_flags'
                        THEN set_events \cup {stop_flags'[n]} ELSE set_events,
                        stop_flags', th)
                 /\ th' = Cancelled(n)
                 /\ caller' = [caller EXCEPT !.name = n, !.rest = caller.rest \ {n}]
         [] caller.op = "stop_all" /\ caller.rest = {} ->
              /\ caller' = [IdleCaller EXCEPT !.pc = "stopped"]
              /\ set_events' = Referenced(set_events, stop_flags', th)
              /\ UNCHANGED th
         [] OTHER ->
              /\ caller' = IdleCaller
              /\ set_events' = Referenced(set_events, stop_flags', th)
              /\ UNCHANGED th
    /\ UNCHANGED <<clock, nextReg>>

\* stop_all has returned to a caller that goes on using the scheduler
StopAllReturn ==
    /\ caller.pc = "stopped"
    /\ caller' = IdleCaller
    /\ UNCHANGED <<clock, tasks, threads, stop_flags, last_run, set_events, th,
                   nextReg>>

\* a job thread when the interpreter exits: the threads are daemon threads
\* (line 52), so one that has not ended is abandoned where it is
AtExit(t) == IF t.pc \in {"dead", "crashed"} THEN t ELSE Ended(t, "killed")

\* main.py 197-203: shutdown_event calls stop_all and returns, the
\* application process exits
ProcessExit ==
    /\ caller.pc = "stopped"
    /\ caller' = [IdleCaller EXCEPT !.pc = "exited"]
    /\ th' = [id \in DOMAIN th |-> AtExit(th[id])]
    /\ set_events' = {}
    /\ UNCHANGED <<clock, tasks, threads, stop_flags, last_run, nextReg>>

\* _run_task, lines 62-68: the thread reads the config of its name
ThStart(id) ==
    /\ th[id].pc = "start"
    /\ IF th[id].name \notin DOMAIN tasks
       THEN th' = [th EXCEPT ![id] = Ended(@, "crashed")]
       ELSE LET cfg == tasks[th[id].name] IN
            th' = [th EXCEPT ![id].func = cfg.func,
                             ![id].interval = cfg.interval,
                             ![id].run_immediately = cfg.run_immediately,
                             ![id].pc = IF cfg.run_immediately THEN "imm" ELSE "loop",
                             ![id].began = IF cfg.run_immediately THEN clock ELSE NoTime]
    /\ UNCHANGED <<clock, tasks, threads, stop_flags, last_run, set_events,
                   caller, nextReg>>

\* variant: a body that ends after the stop Event was set is not followed
\* by the loop test
AfterBodyStopAware(t, ok, stopped) ==
    IF stopped THEN Ended(t, "dead")
    ELSE [t EXCEPT !.pc = "loop", !.began = NoTime, !.failed = ~ok]

\* variant: an exception of the body leaves _run_task
AfterBodyFailEnds(t, ok, stopped) ==
    IF ok THEN [t EXCEPT !.pc = "loop", !.began = NoTime, !.failed = FALSE]
    ELSE Ended(t, "crashed")

\* lines 70-75 and 92-101: func() has returned (ok) or raised an Exception,
\* which is caught and logged; either way the thread goes on to the loop
\* test of line 78, whether the stop Event was set meanwhile or not
AfterBody(t, ok, stopped) ==
    [t EXCEPT !.pc = "loop", !.began = NoTime, !.failed = ~ok]

\* the body func() returns or raises; on return _last_run[task_name] = now
FuncEnds(id) ==
    /\ \E ok \in BOOLEAN :
         /\ last_run' = IF ok THEN Put(last_run, th[id].name, clock) ELSE last_run
         /\ th' = [th EXCEPT ![id] = AfterBody(@, ok, th[id].cancelled # "no")]
    /\ UNCHANGED <<clock, tasks, threads, stop_flags, set_events, caller, nextReg>>

\* lines 68-75: the immediate run
ThImmediate(id) ==
    /\ th[id].pc = "imm"
    /\ FuncEnds(id)

\* lines 78-87: the loop test reads the Event of the name, then the thread
\* computes the next hour and waits on the Event
\* (a thread that goes on to the wait starts a new cycle: what is recorded
\* of its last body and of the cancel requests it met is dropped)
ThLoop(id) ==
    /\ th[id].pc = "loop"
    /\ IF th[id].name \notin DOMAIN stop_flags
       THEN th' = [th EXCEPT ![id] = Ended(@, "crashed")]
       ELSE IF stop_flags[th[id].name] \in set_events
            THEN th' = [th EXCEPT ![id] = Ended(@, "dead")]
            ELSE th' = [th EXCEPT ![id].pc = "wait",
                                  ![id].failed = FALSE,
                                  ![id].cancelled = "no",
                                  ![id].ev = stop_flags[th[id].name],
                                  ![id].target = NextHour(clock)]
    /\ UNCHANGED <<clock, tasks, threads, stop_flags, last_run, set_events,
                   caller, nextReg>>

\* lines 87-91: wait returns True when the Event is set (break), False when
\* the timeout has passed (the body starts)
ThWake(id) ==
    /\ th[id].pc = "wait"
    /\ IF th[id].ev \in set_events
       THEN th' = [th EXCEPT ![id] = Ended(@, "dead")]
       ELSE /\ clock >= th[id].target
            /\ th' = [th EXCEPT ![id].pc = "body", ![id].began = clock,
                                ![id].ev = 0, ![id].target = NoTime,
                                ![id].starts = Append(@, clock)]
    /\ set_events' = Referenced(set_events, stop_flags, th')
    /\ UNCHANGED <<clock, tasks, threads, stop_flags, last_run,
                   caller, nextReg>>

\* lines 92-101: the run of a cycle
ThBodyEnd(id) ==
    /\ th[id].pc = "body"
    /\ FuncEnds(id)

\* get_task_status (lines 119-140): None for a name that is not in _tasks;
\* otherwise last_run, None when _last_run has no entry, and next_run
GetTaskStatus(name) ==
    IF name \notin DOMAIN tasks THEN None
    ELSE IF name \in DOMAIN last_run
         THEN [last_run |-> last_run[name],
               next_run |-> last_run[name] + tasks[name].interval]
         ELSE [last_run |-> NoTime, next_run |-> clock]

\* the instants after now at which something can happen: a call, the end
\* of a wait, a minute of a running body
Instants ==
    LET h == (clock \div Hour) * Hour
        calls == {h + m : m \in CallMinutes} \cup {h + Hour + m : m \in CallMinutes}
        wakes == {th[id].target : id \in {i \in DOMAIN th : th[i].pc = "wait"}}
        runs == UNION {(clock + 1)..(th[id].began + MaxBody) :
                          id \in {i \in DOMAIN th : th[i].pc \in {"imm", "body"}}}
    IN  {t \in calls \cup wakes \cup runs : t > clock /\ t <= MaxTime}

Earliest(S) == CHOOSE t \in S : \A u \in S : t <= u

\* time passes up to the next instant: no handler is in progress, no thread
\* is between two blocking points, no wait is due, no body exceeds MaxBody
Tick ==
    /\ Instants # {}
    /\ caller.pc = "idle"
    /\ \A id \in DOMAIN th :
         /\ th[id].pc \notin {"start", "loop"}
         /\ th[id].pc = "wait" =>
              (th[id].ev \notin set_events /\ clock < th[id].target)
         /\ th[id].pc \in {"imm", "body"} => clock < th[id].began + MaxBody
    /\ clock' = Earliest(Instants)
    /\ UNCHANGED <<tasks, threads, stop_flags, last_run, set_events, th,
                   caller, nextReg>>

SchedStep ==
    \/ \E name \in Names, interval \in Intervals, imm \in BOOLEAN :
          ScheduleTask(name, interval, imm)
    \/ Register
    \/ \E name \in Names : CancelTask(name)
    \/ StopAll
    \/ JoinReturn
    \/ StopAllReturn
    \/ ProcessExit
    \/ \E id \in DOMAIN th :
          \/ ThStart(id)
          \/ ThImmediate(id)
          \/ ThLoop(id)
          \/ ThWake(id)
          \/ ThBodyEnd(id)
    \/ Tick

NextSched ==
    SchedStep /\ UNCHANGED <<cacheVars, buildVars, trainVars, predictVars, textVars>>

SpecSched == InitSched /\ [][NextSched]_vars

\* ====================================================================
\* MLService.build_intervals (ml_service.py 59-210), for one device
\* ====================================================================
\* Times are whole numbers of half days; a row of df is an alarm with its
\* time (Fecha_alarma), its failure flag (is_failure_bool) and whether its
\* severity reaches sev_thr.

MaxEvents == 3       \* alarms of the device
MaxT == 2            \* latest time value
Day == 2             \* timedelta(hours=24), in half days

TimeValues == 0..MaxT

AlarmRows == [time : TimeValues, is_failure : BOOLEAN, critical : BOOLEAN]

\* get_all_alarms returns the alarms ORDER BY alarm_date
\* (bigquery_service.py 64-65); alarms of equal time come in any order
AlarmStreams ==
    {str \in UNION {[1..n -> AlarmRows] : n \in 1..MaxEvents} :
        \A i \in 1..(Len(str) - 1) : str[i].time <= str[i + 1].time}

\* build_intervals is called for a device with the alarms it has, at a time
\* given by the clock of the host, with or without a maintenance record
InitBuild ==
    /\ CacheConstructed /\ SchedulerConstructed /\ TrainIdle /\ PredictIdle
    /\ TextIdle
    /\ events \in AlarmStreams
    /\ build_now \in TimeValues
    /\ last_maintenance_time \in {NoTime} \cup TimeValues
    /\ current_time_elapsed = 0
    /\ start_idx = 0
    /\ fail_pos = 0
    /\ recs = <<>>
    /\ bpc = "called"

\* a row inserted into a sequence sorted by time, after the rows of equal time
RECURSIVE InsertByTime(_, _)
InsertByTime(sorted, row) ==
    IF sorted = <<>> THEN <<row>>
    ELSE IF row.time < sorted[Len(sorted)].time
         THEN Append(InsertByTime(SubSeq(sorted, 1, Len(sorted) - 1), row),
                     sorted[Len(sorted)])
         ELSE Append(sorted, row)

\* line 76: df.sort_values([id_col, time_col])
RECURSIVE SortByTime(_)
SortByTime(df) ==
    IF df = <<>> THEN <<>>
    ELSE InsertByTime(SortByTime(SubSeq(df, 1, Len(df) - 1)), df[Len(df)])

\* the elements of a set of numbers in ascending order
RECURSIVE Ascending(_)
Ascending(S) ==
    IF S = {} THEN <<>>
    ELSE LET m == CHOOSE x \in S : \A y \in S : x <= y
         IN  <<m>> \o Ascending(S \ {m})

\* line 126: np.where(is_fail)[0], the 0-based indices of the failures
FailIndices(g) == Ascending({i \in 0..(Len(g) - 1) : g[i + 1].is_failure})

\* times[idx] of line 92, idx 0-based
TimeAt(g, idx) == g[idx + 1].time

Max2(a, b) == IF a >= b THEN a ELSE b

MaxTimeOf(g, S) == CHOOSE t \in {g[i].time : i \in S} :
                      \A i \in S : g[i].time <= t

\* _get_last_critical_alarm_time (lines 212-224): the latest alarm whose
\* severity reaches the threshold, or the latest alarm when there is none
LastCriticalTime(g) ==
    LET crit == {i \in 1..Len(g) : g[i].critical}
    IN  IF crit # {} THEN MaxTimeOf(g, crit) ELSE MaxTimeOf(g, 1..Len(g))

\* variant: a maintenance record alone is the base time
ElapsedSinceMaintenance(g, t_now, maint) ==
    IF maint # NoTime THEN t_now - maint ELSE t_now - LastCriticalTime(g)

\* lines 110-123: the time elapsed since the later of the last maintenance
\* and the last critical alarm
Elapsed(g, t_now, maint) ==
    IF maint # NoTime THEN t_now - Max2(maint, LastCriticalTime(g))
    ELSE t_now - LastCriticalTime(g)

\* lines 162, 192: the alarms of the 24 hours before start_time
AlarmsLast24h(g, start_time) ==
    Cardinality({i \in 1..Len(g) :
                    g[i].time >= start_time - Day /\ g[i].time < start_time})

\* variant: the elapsed time is taken from the start of the row
RowElapsedFromStart(cte, start_time) == build_now - start_time

\* lines 144, 180, 205: the current_time_elapsed entry of a row
RowElapsed(cte, start_time) == cte

\* variant: the alarm that ends the interval is counted in it too
TotalAlarmsInclusive(first, past) == past - first + 1

\* lines 159, 190: total_alarms = end_idx - start_idx, and n - start_idx
TotalAlarms(first, past) == past - first

\* lines 130-147: the only row of a device without failures
NoFailureRow(g) ==
    [start |-> TimeAt(g, start_idx), end |-> build_now,
     duration_hours |-> build_now - TimeAt(g, start_idx),
     event |-> 0,
     total_alarms |-> Len(g),
     alarms_last_24h |-> 0,
     time_since_last_alarm_h |-> build_now - TimeAt(g, Len(g) - 1),
     current_time_elapsed |-> RowElapsed(current_time_elapsed, TimeAt(g, start_idx))]

\* lines 156-183: the row that ends at the failure end_idx
EventRow(g, end_idx) ==
    [start |-> TimeAt(g, start_idx), end |-> TimeAt(g, end_idx),
     duration_hours |-> TimeAt(g, end_idx) - TimeAt(g, start_idx),
     event |-> 1,
     total_alarms |-> TotalAlarms(start_idx, end_idx),
     alarms_last_24h |-> AlarmsLast24h(g, TimeAt(g, start_idx)),
     time_since_last_alarm_h |->
         IF start_idx - 1 >= 0
         THEN TimeAt(g, start_idx) - TimeAt(g, start_idx - 1) ELSE NaN,
     current_time_elapsed |-> RowElapsed(current_time_elapsed, TimeAt(g, start_idx))]

\* variant: the trailing row measures from the alarm before its boundary
TrailingRowSinceBoundary(g) ==
    [start |-> TimeAt(g, start_idx), end |-> build_now,
     duration_hours |-> build_now - TimeAt(g, start_idx),
     event |-> 0,
     total_alarms |-> TotalAlarms(start_idx, Len(g)),
     alarms_last_24h |-> AlarmsLast24h(g, TimeAt(g, start_idx)),
     time_since_last_alarm_h |->
         IF start_idx - 1 >= 0
         THEN TimeAt(g, start_idx) - TimeAt(g, start_idx - 1) ELSE NaN,
     current_time_elapsed |-> RowElapsed(current_time_elapsed, TimeAt(g, start_idx))]

\* lines 188-208: the trailing censored row
TrailingRow(g) ==
    [start |-> TimeAt(g, start_idx), end |-> build_now,
     duration_hours |-> build_now - TimeAt(g, start_idx),
     event |-> 0,
     total_alarms |-> TotalAlarms(start_idx, Len(g)),
     alarms_last_24h |-> AlarmsLast24h(g, TimeAt(g, start_idx)),
     time_since_last_alarm_h |-> build_now - TimeAt(g, Len(g) - 1),
     current_time_elapsed |-> RowElapsed(current_time_elapsed, TimeAt(g, start_idx))]

\* line 152: a failure index that is not past the boundary is skipped
NotPastBoundary(end_idx, boundary) == end_idx <= boundary

\* lines 76-128: sort, base time, first boundary, failure indices
BuildPrepare ==
    /\ bpc = "called"
    /\ events' = SortByTime(events)
    /\ current_time_elapsed' = Elapsed(events', build_now, last_maintenance_time)
    /\ start_idx' = 0
    /\ fail_pos' = 1
    /\ bpc' = IF FailIndices(events') = <<>> THEN "no_failures" ELSE "loop"
    /\ UNCHANGED <<build_now, last_maintenance_time, recs>>

\* lines 128-147: no failure, one censored row
BuildNoFailures ==
    /\ bpc = "no_failures"
    /\ recs' = Append(recs, NoFailureRow(events))
    /\ bpc' = "done"
    /\ UNCHANGED <<events, build_now, last_maintenance_time, current_time_elapsed,
                   start_idx, fail_pos>>

\* lines 150-184: one pass of the loop over fail_indices
BuildFailure ==
    /\ bpc = "loop"
    /\ LET fail_indices == FailIndices(events)
           fi == fail_indices[fail_pos]
       IN  /\ IF NotPastBoundary(fi, start_idx)
              THEN UNCHANGED recs
              ELSE recs' = Append(recs, EventRow(events, fi))
           /\ start_idx' = fi
           /\ fail_pos' = fail_pos + 1
           /\ bpc' = IF fail_pos = Len(fail_indices) THEN "trailing" ELSE "loop"
    /\ UNCHANGED <<events, build_now, last_maintenance_time, current_time_elapsed>>

\* lines 186-208: the trailing censored row, then the rows are returned
BuildTrailing ==
    /\ bpc = "trailing"
    /\ IF start_idx < Len(events)
       THEN recs' = Append(recs, TrailingRow(events))
       ELSE UNCHANGED recs
    /\ bpc' = "done"
    /\ UNCHANGED <<events, build_now, last_maintenance_time, current_time_elapsed,
                   start_idx, fail_pos>>

BuildStep ==
    \/ BuildPrepare
    \/ BuildNoFailures
    \/ BuildFailure
    \/ BuildTrailing

NextBuild ==
    BuildStep /\ UNCHANGED <<cacheVars, schedVars, trainVars, predictVars, textVars>>

SpecBuild == InitBuild /\ [][NextBuild]_vars

\* ====================================================================
\* MLService.train_model (ml_service.py 226-273)
\* ====================================================================
\* duration_hours is an array of binary floating-point numbers and np.std
\* works in floating-point arithmetic: every sum and quotient is rounded to
\* the significand. The model keeps the arithmetic and shortens the
\* significand (float64 has 53 bits). A float is written as a whole number of
\* units of 2^-FracBits hours.

SignificandBits == 16  \* bits of the significand
MaxMant == 3           \* the significands of the inputs are 2^15 .. 2^15 + MaxMant
FracBits == 2          \* binary places of the unit
MaxRows == 11          \* rows of intervals
MaxOther == 2          \* rows whose duration is not that of the last row

MinSamples == 10       \* line 262: n_samples < 10
MinEvents == 3         \* line 259: n_events < 3

Pow2(k) == 2 ^ k

\* the floats lo, lo + ulp, ... at the start of the binade that starts at lo
Binade(lo) == {(Pow2(SignificandBits - 1) + j) * (lo \div Pow2(SignificandBits - 1)) :
                  j \in 0..MaxMant}

\* the durations of the rows: floats of one binade
Durations == Binade(Pow2(SignificandBits - 1) * Pow2(FracBits))

\* num/den rounded to the nearest float, ties to even
\* (num/den is at least the smallest float with a whole number of units)
RoundQ(num, den) ==
    LET e == CHOOSE k \in 0..(MaxRows + 2) :
                 /\ Pow2(SignificandBits - 1 + k) * den <= num
                 /\ num < Pow2(SignificandBits + k) * den
        d == den * Pow2(e)
        q == num \div d
        r == num % d
    IN  Pow2(e) * (IF 2 * r < d THEN q
                   ELSE IF 2 * r > d THEN q + 1
                   ELSE IF q % 2 = 0 THEN q ELSE q + 1)

\* a + b and a / n in floating point
FAdd(a, b) == RoundQ(a + b, 1)
FDiv(a, n) == RoundQ(a, n)

\* res += a[i] for the elements from index i on
RECURSIVE AddFrom(_, _, _)
AddFrom(res, a, i) ==
    IF i > Len(a) THEN res ELSE AddFrom(FAdd(res, a[i]), a, i + 1)

\* np.add.reduce over fewer than 16 elements: below 8 elements a plain
\* loop; otherwise the first 8 are added as a tree and the rest one by one
UmrSum(a) ==
    IF Len(a) < 8 THEN AddFrom(a[1], a, 2)
    ELSE AddFrom(FAdd(FAdd(FAdd(a[1], a[2]), FAdd(a[3], a[4])),
                      FAdd(FAdd(a[5], a[6]), FAdd(a[7], a[8]))), a, 9)

\* np.mean inside np.std: umr_sum(arr) / n
ArrMean(a) == FDiv(UmrSum(a), Len(a))

\* line 265: np.std(times) == 0. The standard deviation is the root of the
\* mean of the squares of x - mean, which is zero only when every
\* difference is zero
StdIsZero(a) == \A i \in 1..Len(a) : a[i] = ArrMean(a)

\* the error train_model raises for these intervals, lines 236-266
Validation(a, ev) ==
    IF Len(a) = 0 THEN "No hay intervalos para entrenar"
    ELSE IF ev = 0 THEN "No hay eventos para entrenar"
    ELSE IF ev < MinEvents THEN "Muy pocos eventos"
    ELSE IF Len(a) < MinSamples THEN "Muy pocas muestras"
    ELSE IF StdIsZero(a) THEN "No hay variabilidad"
    ELSE "valid"

\* the model object RandomSurvivalForest(...).fit gives
NewRsf == 2
OldRsf == 1

\* train_model is called with intervals of up to MaxRows rows, of which
\* n_events have event = 1; the service holds no model or an earlier one
InitTrain ==
    /\ CacheConstructed /\ SchedulerConstructed /\ BuildIdle /\ PredictIdle
    /\ TextIdle
    /\ \E n \in 0..MaxRows, other \in 0..MaxOther, v, w \in Durations :
          /\ other <= n
          /\ times = [i \in 1..n |-> IF i <= other THEN w ELSE v]
    /\ n_events \in 0..Len(times)
    /\ self_model \in {None, OldRsf}
    /\ train_outcome = "called"

\* lines 236-273: validate, fit, install. fit is library code and may raise.
TrainModel ==
    /\ train_outcome = "called"
    /\ LET verdict == Validation(times, n_events)
       IN  IF verdict # "valid"
           THEN /\ train_outcome' = verdict
                /\ UNCHANGED self_model
           ELSE \E fitted \in BOOLEAN :
                   IF fitted
                   THEN /\ self_model' = NewRsf
                        /\ train_outcome' = "returned"
                   ELSE /\ train_outcome' = "fit raised"
                        /\ UNCHANGED self_model
    /\ UNCHANGED <<times, n_events>>

NextTrain ==
    TrainModel /\ UNCHANGED <<cacheVars, schedVars, buildVars, predictVars, textVars>>

SpecTrain == InitTrain /\ [][NextTrain]_vars

\* ====================================================================
\* MLService.predict_risk (ml_service.py 275-336)
\* ====================================================================
\* Times are floats, written as whole numbers of ticks;
\* probabilities and the threshold are whole numbers of 1/ProbSteps.

NSamples == 500      \* line 316: np.linspace(..., 500)
ProbSteps == 2       \* levels of probability

\* the unit of the elapsed time and of max_time, in ticks
HourTicks == 2 ^ 10

\* num/den as a float: whole numbers below 2^SignificandBits are floats
Fl(num, den) ==
    IF den = 1 /\ num < Pow2(SignificandBits) THEN num ELSE RoundQ(num, den)

\* line 316: stop = current_time + max_time
Stop(ct, mt) == Fl(ct + mt, 1)

\* np.linspace: step = (stop - start) / (num - 1)
Step(ct, mt) == Fl(Fl(Stop(ct, mt) - ct, 1), NSamples - 1)

\* np.linspace: y = arange(0, num) * step + start, and y[-1] = stop
TimePoint(i, ct, stop, step) ==
    IF i = NSamples - 1 THEN stop
    ELSE IF i = 0 THEN ct
    ELSE Fl(Fl(i * step, 1) + ct, 1)

\* lines 319-322: risk >= risk_threshold, where risk = 1 - np.interp(t, x, y,
\* left=1.0, right=y[-1]); np.interp is linear between the points of x
RiskReached(t, x, y, thr) ==
    IF t < x[1] THEN thr = 0
    ELSE IF t >= x[Len(x)] THEN ProbSteps - y[Len(y)] >= thr
    ELSE LET j == CHOOSE k \in 1..(Len(x) - 1) : x[k] <= t /\ t < x[k + 1]
             dx == x[j + 1] - x[j]
         IN  (ProbSteps - thr) * dx >= y[j] * dx + (y[j + 1] - y[j]) * (t - x[j])

\* variant: the time point itself is returned
AbsoluteTime(time_point, ct) == time_point

\* line 324: time_to_threshold = time_point - current_time
Offset(time_point, ct) == Fl(time_point - ct, 1)

\* lines 318-336: the first sample that reaches the threshold, or max_time
Scan(ct, mt, x, y, thr) ==
    LET stop == Stop(ct, mt)
        step == Step(ct, mt)
        reached == {i \in 0..(NSamples - 1) :
                       RiskReached(TimePoint(i, ct, stop, step), x, y, thr)}
        first == CHOOSE i \in reached : \A j \in reached : i <= j
    IN  IF reached = {}
        THEN [time_to_threshold |-> mt, sample |-> NSamples]
        ELSE [time_to_threshold |-> Offset(TimePoint(first, ct, stop, step), ct),
              sample |-> first]

\* the times a survival curve or an elapsed time can have
CurveTimes == Binade(Pow2(SignificandBits) * HourTicks)

\* the largest of the small values of n_points
MaxPoints == 3

\* the values of n_points: a few small ones, and the 500 every caller passes
PointCounts == (0..MaxPoints) \cup {NSamples}

\* variant: np.linspace(0, max_time, n_points, endpoint=False)
PlotTimeOpen(i, n, mt) == Fl(i * Fl(mt, n), 1)

\* np.linspace(0, max_time, n_points): step = max_time / (n_points - 1),
\* y = arange(0, n_points) * step, and y[-1] = max_time when n_points > 1
PlotTime(i, n, mt) ==
    IF i = 0 THEN 0
    ELSE IF i = n - 1 THEN mt
    ELSE Fl(i * Fl(mt, n - 1), 1)

\* line 366: adjusted_times = plot_times + current_time
AdjustedTime(t, ct) == Fl(t + ct, 1)

\* lines 367-368: np.interp(t, x, y, left=1.0, right=y[-1]), as the fraction
\* num/den of 1/ProbSteps
Survival(t, x, y) ==
    IF t < x[1] THEN [num |-> ProbSteps, den |-> 1]
    ELSE IF t >= x[Len(x)] THEN [num |-> y[Len(y)], den |-> 1]
    ELSE LET j == CHOOSE k \in 1..(Len(x) - 1) : x[k] <= t /\ t < x[k + 1]
             dx == x[j + 1] - x[j]
         IN  [num |-> y[j] * dx + (y[j + 1] - y[j]) * (t - x[j]), den |-> dx]

\* line 369: failure_risk = (1 - survival_probs) * 100, as the percentage
\* 100 * num / den
FailureRisk(surv) ==
    [num |-> ProbSteps * surv.den - surv.num, den |-> ProbSteps * surv.den]

\* line 372: t / 24.0 as a float, in 1/16 of a tick
TiempoDias(t) == IF t = 0 THEN 0 ELSE RoundQ(t * 16, 24)

\* lines 371-374: one entry per plot time
CurvePoints(n, ct, mt, x, y) ==
    [i \in 1..n |->
        LET t == PlotTime(i - 1, n, mt)
        IN  [tiempo_dias |-> TiempoDias(t),
             riesgo_porcentaje |->
                 FailureRisk(Survival(AdjustedTime(t, ct), x, y))]]

\* predict_risk or get_survival_curve is called, with or without a trained
\* model, for a device that has intervals or for one that has none: the
\* survival curve of the device is non-increasing over increasing times,
\* risk_threshold is in [0, 1], max_time > 0
InitPredict ==
    /\ CacheConstructed /\ SchedulerConstructed /\ BuildIdle /\ TrainNotCalled
    /\ TextIdle
    /\ self_model \in {None, OldRsf}
    /\ device_known \in BOOLEAN
    /\ \E x1 \in {Pow2(SignificandBits - 1) * HourTicks}, x2 \in CurveTimes :
          x1 < x2 /\ surv_x = <<x1, x2>>
    /\ \E y1 \in {ProbSteps}, y2 \in 0..ProbSteps :
          y2 <= y1 /\ surv_y = <<y1, y2>>
    /\ current_time \in {0} \cup Binade(Pow2(SignificandBits - 1) * HourTicks)
    /\ max_time \in {Pow2(SignificandBits - 1) * HourTicks}
    /\ predict_op \in {"predict_risk", "get_survival_curve"}
    /\ IF predict_op = "predict_risk"
       THEN risk_threshold \in 0..ProbSteps /\ n_points = NSamples
       ELSE risk_threshold = 0 /\ n_points \in PointCounts
    /\ prediction = None
    /\ curve = <<>>
    /\ predict_pc = "called"

\* lines 289-290: raise ValueError("Modelo no entrenado")
PredictRaises == self_model = None

\* lines 292-297: return None
PredictReturnsNone == self_model # None /\ ~device_known

PredictRisk ==
    /\ predict_pc = "called"
    /\ predict_op = "predict_risk"
    /\ IF PredictRaises
       THEN predict_pc' = "raised" /\ prediction' = prediction
       ELSE IF PredictReturnsNone
       THEN predict_pc' = "none" /\ prediction' = None
       ELSE /\ predict_pc' = "returned"
            /\ prediction' = Scan(current_time, max_time, surv_x, surv_y,
                                  risk_threshold)
    /\ UNCHANGED <<surv_x, surv_y, current_time, max_time, risk_threshold,
                   predict_op, device_known, n_points, curve>>

\* MLService.get_survival_curve (ml_service.py 338-375)
GetSurvivalCurve ==
    /\ predict_pc = "called"
    /\ predict_op = "get_survival_curve"
    /\ IF self_model = None \/ ~device_known
       THEN predict_pc' = "none" /\ curve' = curve
       ELSE /\ predict_pc' = "listed"
            /\ curve' = CurvePoints(n_points, current_time, max_time,
                                    surv_x, surv_y)
    /\ UNCHANGED <<surv_x, surv_y, current_time, max_time, risk_threshold,
                   predict_op, device_known, n_points, prediction>>

PredictStep == PredictRisk \/ GetSurvivalCurve

NextPredict ==
    PredictStep /\ UNCHANGED <<cacheVars, schedVars, buildVars, trainVars, textVars>>

SpecPredict == InitPredict /\ [][NextPredict]_vars

\* ====================================================================
\* Properties of the cache (SpecCache)
\* ====================================================================

Executing == {t \in Threads : pc[t] \in PipelinePcs}

\* C1: single-flight - at most one refresh pipeline is executing at any
\* time, for every interleaving of the callers of refresh_all_data.
SingleFlight == Cardinality(Executing) <= 1

\* C2: every field of the result of get_cached_data comes from one and the
\* same published snapshot, never a mix of an old and a new one.
ReaderSeesOneSnapshot ==
    pc["req"] \in {"returned", "predicted"} =>
        \E g \in Gens :
            /\ \A f \in {"df_raw", "df_processed", "last_update"} : data[f] = g
            /\ data["intervals"] \in {g, Empty}
            /\ data["model"] \in {g, None}
            /\ \A f \in MapFields : data[f] \in {g, Empty}

\* C3: a refresh whose pipeline raises before publishing has published
\* nothing, its handler leaves the published snapshot as it is, and the
\* finally clause clears the updating flag.
FailedRefreshKeepsSnapshot ==
    /\ [](\A t \in Threads : loc[t].raised => cached["last_update"] # gen[t])
    /\ [][\A t \in Threads :
            (pc[t] = "finally" /\ loc[t].raised /\ pc'[t] # "finally")
                => (cached' = cached /\ ~is_updating')]_vars

\* C3 witness: a pipeline has raised while an earlier snapshot is published
FailedRefreshSeen ==
    \E t \in Threads :
        /\ pc[t] = "finally" /\ loc[t].raised
        /\ cached["last_update"] # None /\ is_updating

NeverNullAgain ==
    /\ [](cached["last_update"] # None =>
            \A f \in {"df_raw", "df_processed", "intervals"} : cached[f] # None)
    /\ [][cached["last_update"] # None => cached'["last_update"] # None]_vars

\* C6 witness: after a publication a later run has failed
LaterRefreshFailed ==
    \E t \in Threads :
        /\ loc[t].raised
        /\ cached["last_update"] \in Gens
        /\ gen[t] > cached["last_update"]

\* C7: a get_cached_data call that finds no snapshot returns the data of a
\* completed refresh: it does not fail and does not return an empty cache,
\* also when another refresh is in progress at the time of the call.
BootstrapReturnsData ==
    sawEmpty =>
        /\ pc["req"] # "error"
        /\ (pc["req"] = "returned" => data["last_update"] # None)

\* C8: predict_risk computes with the model of the snapshot whose intervals
\* it is given.
PredictUsesSnapshotModel ==
    pc["req"] = "predicted" => pred.model = pred.intervals

\* ====================================================================
\* Properties of the scheduler (SpecSched)
\* ====================================================================

\* the first full hour strictly after minute t
HourBoundaryAfter(t) == ((t \div 60) + 1) * 60

\* C9: a job registered with run_immediately = False runs for the first time
\* at the first hour boundary after its registration (registered at 14:32:
\* 15:00, not 15:32), and its body does not run before that boundary.
FirstRunAtHourBoundary ==
    \A id \in DOMAIN th :
        (th[id].pc # "start" /\ ~th[id].run_immediately) =>
            /\ th[id].pc # "imm"
            /\ th[id].pc = "body" => clock >= HourBoundaryAfter(th[id].reg)
            /\ Len(th[id].starts) >= 1 =>
                   th[id].starts[1] = HourBoundaryAfter(th[id].reg)

\* C9 witness: a job registered at minute 32 without an immediate run is
\* inside its first run at minute 60
FirstRunSeen ==
    \E id \in DOMAIN th :
        /\ th[id].reg = 32 /\ ~th[id].run_immediately
        /\ th[id].pc = "body" /\ th[id].starts = <<60>> /\ clock = 60

\* C10: consecutive runs of a job start interval_minutes apart, for every
\* registered interval.
RepeatsEveryInterval ==
    \A id \in DOMAIN th :
        \A i \in 2..Len(th[id].starts) :
            th[id].starts[i] - th[id].starts[i - 1] = th[id].interval

\* C11: after schedule() returned for an already registered name only the
\* newly registered thread goes on for that name: every thread that waits
\* for its next cycle is the thread registered under its name.
OnlyRegisteredThreadWaits ==
    \A id \in DOMAIN th :
        th[id].pc = "wait" =>
            /\ th[id].name \in DOMAIN threads
            /\ threads[th[id].name] = id

\* C12: after cancel(name) or stop_all() has been called for a job, no run
\* of its body begins any more.
NoRunAfterCancel ==
    [][\A id \in DOMAIN th :
         (th[id].cancelled # "no" /\ th[id].pc \notin {"imm", "body"})
             => th'[id].pc \notin {"imm", "body"}]_vars

\* C13 as stated: a body that is executing when cancel is requested always
\* runs to completion (it leaves the body by the return or the exception of
\* func() only).
CancelledBodyCompletes ==
    [][\A id \in DOMAIN th :
         (th[id].pc \in {"imm", "body"} /\ th[id].cancelled = "running"
          /\ th'[id].pc \notin {"imm", "body"})
             => th'[id].pc = "loop"]_vars

\* C13 amended: cancel and stop_all never interrupt a body: the stop Event
\* is examined at the loop test and in the wait only, and a body that is
\* executing when cancel is requested ends by the return or the exception of
\* func(), unless the process exits first (after stop_all the daemon
\* thread is abandoned with the process).
CancelIsCooperative ==
    /\ [][\A id \in DOMAIN th :
            (th[id].pc \in {"imm", "body"} /\ th'[id].pc \notin {"imm", "body"})
                => \/ th'[id].pc = "loop"
                   \/ th'[id].pc = "killed" /\ caller'.pc = "exited"]_vars
    /\ [][\A id \in DOMAIN th :
            (th[id].pc # "dead" /\ th'[id].pc = "dead")
                => th[id].pc \in {"loop", "wait"}]_vars

\* C13 witness: a body that was executing when cancel was requested has
\* ended and its thread is at the loop test
CancelledBodyEnded ==
    \E id \in DOMAIN th : th[id].pc = "loop" /\ th[id].cancelled = "running"

\* C14: an exception of a job body is caught: the thread goes on to the
\* loop test and, unless the stop Event of its name is set or deleted, to
\* the wait for the next hour; the other threads are left as they are.
BodyFailureKeepsLoop ==
    /\ [][\A id \in DOMAIN th :
            (th[id].pc \in {"imm", "body"} /\ th'[id].pc \notin {"imm", "body", "killed"})
                => /\ th'[id].pc = "loop"
                   /\ \A o \in DOMAIN th \ {id} : th'[o] = th[o]]_vars
    /\ [][\A id \in DOMAIN th :
            (th[id].pc = "loop" /\ th[id].failed
             /\ th[id].name \in DOMAIN stop_flags
             /\ stop_flags[th[id].name] \notin set_events
             /\ th'[id].pc # "loop")
                => (th'[id].pc = "wait" /\ th'[id].target = NextHour(clock))]_vars

\* C14 witness: the registered thread of a job waits for its next cycle
\* though its immediate run raised (no run of the job has been recorded)
WaitsAfterFailure ==
    \E id \in DOMAIN th :
        /\ th[id].pc = "wait" /\ th[id].run_immediately
        /\ th[id].name \in DOMAIN threads /\ threads[th[id].name] = id
        /\ th[id].name \notin DOMAIN last_run
        /\ th[id].ev \notin set_events

\* ====================================================================
\* Properties of build_intervals (SpecBuild)
\* ====================================================================

\* the failures of the device
Failures == {i \in 1..Len(events) : events[i].is_failure}

\* C15: a device with k >= 1 failures gets k rows with event = 1, less the
\* failure at the first alarm (the only index the boundary rule skips),
\* followed by one row with event = 0 that ends at now; a device without
\* failures gets one row with event = 0; every duration_hours is >= 0.
RowCountsAndDurations ==
    bpc = "done" =>
        /\ Len(recs) = Cardinality(Failures \ {1}) + 1
        /\ \A i \in 1..(Len(recs) - 1) : recs[i].event = 1
        /\ recs[Len(recs)].event = 0
        /\ recs[Len(recs)].end = build_now
        /\ \A i \in 1..Len(recs) : recs[i].duration_hours >= 0

\* C16: the rows of a device have end >= start, are in chronological order
\* and contiguous: each row starts where the previous one ended.
RowsOrderedContiguous ==
    bpc = "done" =>
        /\ \A i \in 1..Len(recs) : recs[i].end >= recs[i].start
        /\ \A i \in 1..(Len(recs) - 1) :
              /\ recs[i].end = recs[i + 1].start
              /\ recs[i].start <= recs[i + 1].start

\* C17: no row with event = 1 has duration_hours <= 0.
EventRowsHavePositiveDuration ==
    \A i \in 1..Len(recs) : recs[i].event = 1 => recs[i].duration_hours > 0

\* C18: current_time_elapsed is the same in all rows of the device.
SameElapsedInAllRows ==
    \A i, j \in 1..Len(recs) :
        recs[i].current_time_elapsed = recs[j].current_time_elapsed

\* C18 witness: a pass that gave rows with event = 1 and the trailing row,
\* which start at different times
SeveralRowsBuilt ==
    /\ bpc = "done" /\ Len(recs) >= 3
    /\ recs[1].start # recs[3].start
    /\ recs[1].current_time_elapsed # 0

\* the latest time among the alarms of S
LatestOf(S) == CHOOSE t \in {events[i].time : i \in S} :
                  \A i \in S : events[i].time <= t

\* the alarms whose severity reaches the threshold
CriticalAlarms == {i \in 1..Len(events) : events[i].critical}

\* the base time of the claim: the later of the last maintenance and the last
\* critical alarm, the last alarm standing in when none is critical
Baseline ==
    LET last_critical == IF CriticalAlarms # {} THEN LatestOf(CriticalAlarms)
                         ELSE LatestOf(1..Len(events))
    IN  IF last_maintenance_time = NoTime THEN last_critical
        ELSE IF last_maintenance_time >= last_critical
             THEN last_maintenance_time ELSE last_critical

\* C26: for a device with at least one alarm, current_time_elapsed is now
\* less the base time, which is the later of the last maintenance and the
\* last critical alarm, the last alarm of all when no alarm is critical.
ElapsedSinceBaseline ==
    bpc \notin {"idle", "called"} =>
        /\ current_time_elapsed = build_now - Baseline
        /\ \A i \in 1..Len(recs) :
              recs[i].current_time_elapsed = build_now - Baseline

\* C26 witness: a maintenance record older than the last critical alarm, which
\* is not the last alarm
CriticalAlarmAfterMaintenance ==
    /\ bpc = "done"
    /\ last_maintenance_time # NoTime
    /\ CriticalAlarms # {}
    /\ last_maintenance_time < LatestOf(CriticalAlarms)
    /\ LatestOf(CriticalAlarms) < LatestOf(1..Len(events))
    /\ current_time_elapsed = build_now - LatestOf(CriticalAlarms)

\* the total_alarms of the rows added up
RECURSIVE SumTotalAlarms(_)
SumTotalAlarms(rows) ==
    IF rows = <<>> THEN 0
    ELSE rows[Len(rows)].total_alarms
            + SumTotalAlarms(SubSeq(rows, 1, Len(rows) - 1))

\* C29: the total_alarms of the rows of a device add up to the number of its
\* alarms, whatever the failure flags are.
AlarmsPartitioned ==
    bpc = "done" => SumTotalAlarms(recs) = Len(events)

\* C29 witness: rows with event = 1 and a trailing row, for a device whose
\* first alarm is a failure
PartitionAfterLeadingFailure ==
    /\ bpc = "done"
    /\ Len(recs) >= 2
    /\ events[1].is_failure
    /\ recs[1].total_alarms >= 1

\* C30: the last row of a device is its censored row (event = 0), and
\* total_alarms, alarms_last_24h and time_since_last_alarm_h are defined in it.
LastRowCensoredAndComplete ==
    bpc = "done" =>
        /\ Len(recs) >= 1
        /\ recs[Len(recs)].event = 0
        /\ recs[Len(recs)].total_alarms # NaN
        /\ recs[Len(recs)].alarms_last_24h # NaN
        /\ recs[Len(recs)].time_since_last_alarm_h # NaN

\* C30 witness: the trailing row of a device whose only failure is its first
\* alarm, the case in which a row with event = 1 would have no earlier alarm
TrailingRowAfterFirstAlarmFailure ==
    /\ bpc = "done"
    /\ Failures = {1}
    /\ Len(events) >= 2
    /\ Len(recs) = 1
    /\ recs[1].event = 0

\* ====================================================================
\* Properties of train_model (SpecTrain)
\* ====================================================================

\* every row has the same duration
ZeroVariance == \A i, j \in 1..Len(times) : times[i] = times[j]

\* C19: train_model raises when there are fewer than 10 rows, fewer than 3
\* rows with event = 1 or no variance of the durations, and returns only
\* when none of these holds; when it raises, self.model is left as it was.
TrainFailsOnBadInput ==
    [][ /\ (train_outcome' = "returned") =>
              /\ Len(times) >= MinSamples
              /\ n_events >= MinEvents
              /\ ~ZeroVariance
        /\ (train_outcome' # "returned") => self_model' = self_model ]_vars

\* ====================================================================
\* Properties of predict_risk (SpecPredict)
\* ====================================================================

\* C20: predict_risk returns the offset from current_time of the first of the
\* 500 samples whose risk reaches the threshold, and max_time when no sample
\* does; the result is never negative and never more than max_time.
OffsetOfFirstSampleWithinWindow ==
    predict_pc = "returned" =>
        /\ prediction.time_to_threshold >= 0
        /\ prediction.time_to_threshold <= max_time
        /\ prediction.sample = NSamples =>
              prediction.time_to_threshold = max_time
        /\ prediction.sample < NSamples =>
              prediction.time_to_threshold + current_time
                 = TimePoint(prediction.sample, current_time,
                             Stop(current_time, max_time),
                             Step(current_time, max_time))

\* the offset of the last sample: (current_time + max_time) - current_time
LastOffset == Offset(Stop(current_time, max_time), current_time)

\* does sample i reach the threshold
ReachedAt(i) ==
    RiskReached(TimePoint(i, current_time, Stop(current_time, max_time),
                          Step(current_time, max_time)),
                surv_x, surv_y, risk_threshold)

\* C20 (amended): predict_risk returns the floating-point difference between
\* the first of the 500 samples whose risk reaches the threshold and
\* current_time, and max_time when no sample does; the result is never
\* negative and never more than the larger of max_time and the offset of the
\* last sample, (current_time + max_time) - current_time, which rounding can
\* put above max_time.
OffsetOfFirstSampleWithinRoundedWindow ==
    predict_pc = "returned" =>
        /\ prediction.time_to_threshold >= 0
        /\ prediction.time_to_threshold <= Max2(max_time, LastOffset)
        /\ prediction.sample = NSamples =>
              /\ prediction.time_to_threshold = max_time
              /\ \A i \in 0..(NSamples - 1) : ~ReachedAt(i)
        /\ prediction.sample < NSamples =>
              /\ prediction.time_to_threshold + current_time
                    = TimePoint(prediction.sample, current_time,
                                Stop(current_time, max_time),
                                Step(current_time, max_time))
              /\ ReachedAt(prediction.sample)
              /\ \A i \in 0..(prediction.sample - 1) : ~ReachedAt(i)

\* C20 witness: the threshold is first reached at the last sample, after a
\* non-zero elapsed time, and the offset returned is above max_time
LastSampleAboveMaxTime ==
    /\ predict_pc = "returned"
    /\ current_time > 0
    /\ prediction.sample = NSamples - 1
    /\ prediction.time_to_threshold > max_time

\* ====================================================================
\* Properties of predict_risk for an unknown device (SpecPredict)
\* ====================================================================

\* C21: a prediction requested for a device that has no interval returns
\* None and raises no error, whatever the state of the model.
UnknownDeviceGivesNone ==
    (predict_op = "predict_risk" /\ ~device_known /\ predict_pc # "called") =>
        predict_pc = "none" /\ prediction = None

\* ====================================================================
\* Properties of get_survival_curve (SpecPredict)
\* ====================================================================

\* entry i of the curve has a risk between 0 % and 100 %
RiskInRange(i) ==
    /\ 0 <= curve[i].riesgo_porcentaje.num
    /\ curve[i].riesgo_porcentaje.num <= curve[i].riesgo_porcentaje.den

\* the times of the curve never decrease
TimesNonDecreasing ==
    \A i \in 1..(Len(curve) - 1) :
        curve[i].tiempo_dias <= curve[i + 1].tiempo_dias

\* C22: for a known device and a trained model, get_survival_curve returns
\* exactly n_points entries whose time starts at 0, ends at max_time / 24 and
\* never decreases, with a risk between 0 and 100.
CurveSpansWindow ==
    predict_pc = "listed" =>
        /\ Len(curve) = n_points
        /\ n_points > 0 =>
              /\ curve[1].tiempo_dias = 0
              /\ curve[n_points].tiempo_dias = TiempoDias(max_time)
        /\ TimesNonDecreasing
        /\ \A i \in 1..Len(curve) : RiskInRange(i)

\* C22 (amended): for a known device and a trained model, get_survival_curve
\* returns exactly n_points entries whose time never decreases, with a risk
\* between 0 and 100; the first time is 0, and the last one is max_time / 24
\* when n_points is at least 2: a curve of one point is the point at 0.
CurveSpansWindowFromTwoPoints ==
    predict_pc = "listed" =>
        /\ Len(curve) = n_points
        /\ n_points > 0 => curve[1].tiempo_dias = 0
        /\ n_points > 1 => curve[n_points].tiempo_dias = TiempoDias(max_time)
        /\ TimesNonDecreasing
        /\ \A i \in 1..Len(curve) : RiskInRange(i)

\* C22 witness: a curve of 500 points after a non-zero elapsed time, whose
\* risk rises from 0 % to more than 0 %
CurveOfAllSamples ==
    /\ predict_pc = "listed"
    /\ Len(curve) = NSamples
    /\ current_time > 0
    /\ curve[1].riesgo_porcentaje.num = 0
    /\ curve[NSamples].riesgo_porcentaje.num > 0

\* ====================================================================
\* Properties of the scheduler's bookkeeping (SpecSched)
\* ====================================================================

\* the thread registered under the name has just completed a run of its
\* body without an exception
RegisteredRunCompleted(name) ==
    /\ name \in DOMAIN threads
    /\ th[threads[name]].pc \in {"imm", "body"}
    /\ th'[threads[name]].pc = "loop"
    /\ ~th'[threads[name]].failed

\* C25: for a registered job, get_task_status reports as last_run the time
\* at which the most recent run of the job completed without raising, and
\* next_run = last_run + interval; last_run is absent until the job has
\* completed a run; for a name that is not registered the status is None.
\* As a property of steps: the last_run reported for a registered name changes
\* to a time only when the registered job completes a run without raising,
\* and then to the time of the completion.
LastRunIsOfRegisteredJob ==
    [][\A n \in Names :
          /\ n \notin DOMAIN tasks' => GetTaskStatus(n)' = None
          /\ n \in DOMAIN tasks' =>
                /\ GetTaskStatus(n)'.last_run # NoTime =>
                      GetTaskStatus(n)'.next_run
                         = GetTaskStatus(n)'.last_run + tasks'[n].interval
                /\ ( /\ GetTaskStatus(n)'.last_run # NoTime
                     /\ \/ n \notin DOMAIN tasks
                        \/ GetTaskStatus(n).last_run # GetTaskStatus(n)'.last_run )
                   => /\ RegisteredRunCompleted(n)
                      /\ GetTaskStatus(n)'.last_run = clock]_vars

\* C28: in every state, each name that has a last-run entry, a stop flag or
\* a thread entry is a registered task.
BookkeepingConsistent ==
    (DOMAIN last_run \cup DOMAIN stop_flags \cup DOMAIN threads)
        \subseteq DOMAIN tasks

\* ====================================================================
\* Properties of get_status (SpecCache)
\* ====================================================================

\* C24: the is_updating entry of get_status is true exactly when a refresh
\* pipeline is executing, also after overlapping refresh attempts, and it is
\* false again after every refresh has ended.
FlagTellsRefreshRunning == is_updating = (Executing # {})

\* ====================================================================
\* MLService.detect_failures (ml_service.py 24-57), for one record
\* ====================================================================
\* A text is a sequence of pieces; a piece is a run of characters that the
\* keywords and the descriptions share, or a parenthesis.

MaxDesc == 5         \* pieces of a description

HumidityHead == "El valor de 'Humedad de suministro' "
HumidityTail == " ha sido muy alto durante mucho tiempo"

\* lines 37-44: two of the six keywords, one of plain words and one with
\* parentheses
keywords ==
    {<<"Compressor Drive Failure">>,
     <<HumidityHead, "(", "93 % RH", ")", HumidityTail>>}

\* line 46: one of the seven words
exclude_words == {<<"cleared">>}

\* the pieces a description is made of
DescPieces ==
    {"Compressor Drive Failure", "COMPRESSOR DRIVE FAILURE", HumidityHead,
     "(", "93 % RH", ")", HumidityTail, "Cleared"}

\* a description that is None or NaN
MissingValue == <<"<NA>">>

Descriptions ==
    UNION {[1..n -> DescPieces] : n \in 0..MaxDesc} \cup {MissingValue}

Severities == {1, 5}
Thresholds == {None, 3}

\* case=False: the text and the pattern are compared without regard to case
LowerPiece(c) ==
    CASE c \in {"Compressor Drive Failure", "COMPRESSOR DRIVE FAILURE"} ->
            "compressor drive failure"
      [] c = HumidityHead -> "el valor de 'humedad de suministro' "
      [] c = "93 % RH" -> "93 % rh"
      [] c = "Cleared" -> "cleared"
      [] OTHER -> c

Lower(text) == [i \in 1..Len(text) |-> LowerPiece(text[i])]

\* astype(str): a missing value becomes the text 'nan'
AsStr(d) == IF d = MissingValue THEN <<"nan">> ELSE d

\* does text hold pat as a run of consecutive pieces
Holds(text, pat) ==
    \E i \in 1..(Len(text) - Len(pat) + 1) :
        SubSeq(text, i, i + Len(pat) - 1) = pat

IsParen(c) == c \in {"(", ")"}

\* str.contains takes the joined words as a regular expression (regex=True
\* is the default): a parenthesis opens or closes a group and stands for no
\* character of the text
AsRegex(word) == SelectSeq(word, LAMBDA c : ~IsParen(c))

\* str.contains('|'.join(words), case=False, na=False)
ContainsAny(text, words) ==
    \E w \in words : Holds(Lower(text), AsRegex(Lower(w)))

\* lines 48-55: the flag of a record; sev_col and sev_thr are not used
DetectFlag(present, desc, sev, thr) ==
    IF ~present THEN FALSE
    ELSE /\ ContainsAny(AsStr(desc), keywords)
         /\ ~ContainsAny(AsStr(desc), exclude_words)

\* detect_failures is called on a record, with or without the column
InitDetect ==
    /\ CacheConstructed /\ SchedulerConstructed
    /\ BuildIdle /\ TrainIdle /\ PredictIdle /\ FilterIdle
    /\ desc_col_present \in BOOLEAN
    /\ IF desc_col_present THEN description \in Descriptions
       ELSE description = MissingValue
    /\ severity \in Severities
    /\ sev_thr \in Thresholds
    /\ is_failure = FALSE
    /\ detect_pc = "called"

DetectFailures ==
    /\ detect_pc = "called"
    /\ is_failure' = DetectFlag(desc_col_present, description, severity, sev_thr)
    /\ detect_pc' = "returned"
    /\ UNCHANGED <<description, desc_col_present, severity, sev_thr>>

NextDetect ==
    DetectFailures /\ UNCHANGED <<cacheVars, schedVars, buildVars, trainVars,
                                  predictVars, filterVars>>

SpecDetect == InitDetect /\ [][NextDetect]_vars

\* ====================================================================
\* Properties of detect_failures (SpecDetect)
\* ====================================================================

\* the description holds the word as a substring, without regard to case
HasWord(word) ==
    /\ description # MissingValue
    /\ Holds(Lower(description), Lower(word))

\* C23: a record is flagged iff its description holds a keyword and holds no
\* exclusion word, as substrings without regard to case; a missing
\* description gives false; the flag is the same for every severity and
\* every threshold.
FlaggedIffKeywordAndNoExclusion ==
    detect_pc = "returned" =>
        /\ is_failure <=>
              /\ desc_col_present
              /\ \E w \in keywords : HasWord(w)
              /\ ~\E w \in exclude_words : HasWord(w)
        /\ \A sev \in Severities, thr \in Thresholds :
              is_failure = DetectFlag(desc_col_present, description, sev, thr)

\* ====================================================================
\* DataPreloadService.get_cached_data with a tenant key
\* (preload_service.py 135-190, bigquery_service.py 101-165)
\* ====================================================================
\* A device name and a tenant key are sequences of words. A snapshot gives,
\* for each device, the number of its rows; the rows of a frame come in the
\* order of the device names, as build_intervals emits them.

MaxUnitRows == 2     \* rows of one device in a frame

\* the devices, in the order of their names
DeviceOrder ==
    << <<"CRAC", "EAFIT">>, <<"UNIVERSIDAD", "CAUCA">>, <<"eafit", "sala">> >>

\* a published snapshot has rows
Snapshots ==
    {s \in [1..Len(DeviceOrder) -> 0..MaxUnitRows] :
        \E i \in 1..Len(DeviceOrder) : s[i] > 0}

\* None or the empty string
NoKey == <<>>

AllClients == <<"Todos los clientes">>

TenantKeys ==
    {NoKey, AllClients, <<"EAFIT">>, <<"eafit">>, <<"UNIVERSIDAD", "EAFIT">>,
     <<"UNIVERSIDAD">>, <<"METRO">>}

\* the rows of the devices from position i on
RECURSIVE RowsFrom(_, _)
RowsFrom(snap, i) ==
    IF i > Len(DeviceOrder) THEN <<>>
    ELSE [k \in 1..snap[i] |-> DeviceOrder[i]] \o RowsFrom(snap, i + 1)

\* the Dispositivo column of df_raw and df_processed, the unit column of
\* intervals
RowsOf(snap) == RowsFrom(snap, 1)

\* str.upper, and case=False of str.contains
UpperWord(w) ==
    CASE w = "eafit" -> "EAFIT"
      [] w = "sala" -> "SALA"
      [] OTHER -> w

Upper(name) == [i \in 1..Len(name) |-> UpperWord(name[i])]

\* lines 147-156: the entries of variations_map for EAFIT and METRO, in the
\* order of the dict
variations_map ==
    << [key |-> <<"EAFIT">>,
        variations |-> {<<"EAFIT">>, <<"UNIVERSIDAD", "EAFIT">>}],
       [key |-> <<"UNIVERSIDAD", "EAFIT">>,
        variations |-> {<<"EAFIT">>, <<"UNIVERSIDAD", "EAFIT">>}],
       [key |-> <<"METRO">>,
        variations |-> {<<"METRO">>, <<"METRO", "TALLERES">>,
                        <<"METRO", "PCC">>}] >>

\* _get_client_variations (lines 159-165): the variations of the first key
\* that holds the name or is held by it, or the name itself
GetClientVariations(key_name) ==
    LET hits == {i \in 1..Len(variations_map) :
                    \/ Holds(Upper(key_name), variations_map[i].key)
                    \/ Holds(variations_map[i].key, Upper(key_name))}
    IN  IF hits = {} THEN {key_name}
        ELSE variations_map[CHOOSE i \in hits : \A j \in hits : i <= j].variations

\* lines 116-124: mask1 | mask2 for one row
MatchesCliente(device, key_name) ==
    \/ Holds(Upper(device), Upper(key_name))
    \/ \E v \in GetClientVariations(key_name) : Holds(Upper(device), Upper(v))

\* filter_by_cliente (lines 112-126)
FilterByCliente(df, key_name) ==
    IF key_name = NoKey \/ key_name = AllClients THEN df
    ELSE SelectSeq(df, LAMBDA d : MatchesCliente(d, key_name))

\* the reads of self._cached_data that give a frame, in the order of
\* execution: intervals (151), df_raw (166 or 187), df_processed (170 or
\* 188), intervals as the frame indexed (177), intervals as the source of the
\* mask (178)
NReads == 5

\* read k of self._cached_data: the dict is replaced by the refresh thread
\* after publish_at reads
ReadSnap(k) == IF k <= publish_at THEN snap_old ELSE snap_new

\* the devices of a frame
UnitsOf(df) == {df[i] : i \in 1..Len(df)}

\* lines 177-179: frame[source['unit'].isin(devices)]; a boolean Series
\* whose index differs from that of the frame is reindexed to it, so row i
\* of the frame is kept when row i of the source is one of the devices
\* (the source has at least as many rows as the frame)
MaskSelect(frame, source, devices) ==
    LET kept == {i \in 1..Len(frame) : source[i] \in devices}
        Pick[i \in 0..Len(frame)] ==
            IF i = 0 THEN <<>>
            ELSE IF i \in kept THEN Append(Pick[i - 1], frame[i])
            ELSE Pick[i - 1]
    IN  Pick[Len(frame)]

\* a boolean Series with fewer rows than the frame cannot be aligned:
\* IndexingError
Unalignable(frame, source) == Len(source) < Len(frame)

\* get_cached_data is called, with or without a tenant key, on a published
\* snapshot; a refresh may publish another one during the call
InitFilter ==
    /\ CacheConstructed /\ SchedulerConstructed
    /\ BuildIdle /\ TrainIdle /\ PredictIdle /\ DetectIdle
    /\ snap_old \in Snapshots
    /\ snap_new \in Snapshots
    /\ publish_at \in 0..NReads
    /\ tenant \in TenantKeys
    /\ result = <<>>
    /\ filter_pc = "called"

\* lines 161-190
GetCachedData ==
    /\ filter_pc = "called"
    /\ IF tenant = NoKey \/ tenant = AllClients
       THEN /\ result' = [df_raw |-> RowsOf(ReadSnap(2)),
                          df_processed |-> RowsOf(ReadSnap(3)),
                          intervals |-> RowsOf(ReadSnap(1))]
            /\ filter_pc' = "returned"
       ELSE LET df_raw_filtered == FilterByCliente(RowsOf(ReadSnap(2)), tenant)
                df_processed_filtered ==
                    FilterByCliente(RowsOf(ReadSnap(3)), tenant)
                frame == RowsOf(ReadSnap(4))
                source == RowsOf(ReadSnap(5))
            IN  IF df_processed_filtered = <<>>
                THEN /\ result' = [df_raw |-> df_raw_filtered,
                                   df_processed |-> df_processed_filtered,
                                   intervals |-> <<>>]
                     /\ filter_pc' = "returned"
                ELSE IF Unalignable(frame, source)
                THEN /\ result' = result
                     /\ filter_pc' = "raised"
                ELSE /\ result' = [df_raw |-> df_raw_filtered,
                                   df_processed |-> df_processed_filtered,
                                   intervals |->
                                       MaskSelect(frame, source,
                                           UnitsOf(df_processed_filtered))]
                     /\ filter_pc' = "returned"
    /\ UNCHANGED <<snap_old, snap_new, publish_at, tenant>>

NextFilter ==
    GetCachedData /\ UNCHANGED <<cacheVars, schedVars, buildVars, trainVars,
                                 predictVars, detectVars>>

SpecFilter == InitFilter /\ [][NextFilter]_vars

\* ====================================================================
\* Properties of get_cached_data with a tenant key (SpecFilter)
\* ====================================================================

\* the frames a call can find in the cache
Published == {RowsOf(snap_old), RowsOf(snap_new)}

\* C27: with a tenant key, every record of the raw and of the processed data
\* returned has a device name that matches the key or one of its aliases, and
\* every interval returned belongs to a device of the processed records
\* returned (none when there is no such record); with no key or the
\* all-clients key the frames are returned unfiltered.
TenantSeesOwnData ==
    filter_pc = "returned" =>
        IF tenant = NoKey \/ tenant = AllClients
        THEN /\ result.df_raw \in Published
             /\ result.df_processed \in Published
             /\ result.intervals \in Published
        ELSE /\ \A d \in UnitsOf(result.df_raw) : MatchesCliente(d, tenant)
             /\ \A d \in UnitsOf(result.df_processed) : MatchesCliente(d, tenant)
             /\ UnitsOf(result.intervals) \subseteq UnitsOf(result.df_processed)
====
